---- MODULE Spec2Model ----
(***************************************************************************)
(* The line-based edit engine of GooCode (main.go: Agent.EditFile and the  *)
(* handlers applyOperation, applyInsert, applyDelete, applyReplace,        *)
(* applyAppend).                                                           *)
(*                                                                         *)
(* A file is a sequence of bytes; a byte is a one-character string.  A     *)
(* line is a sequence of bytes without the terminator, a document is a     *)
(* sequence of lines.  A Go pointer field (line_number, line_range,        *)
(* pattern) is a sequence of length 0 (nil) or 1 (the value pointed to).   *)
(*                                                                         *)
(* SpecPath is the path resolution of the tools (Agent.resolveFilePath,    *)
(* ReadFile, ListFiles, EditFile and /cd) on a small directory tree.       *)
(* SpecConv is Agent.manageConversationLength on the conversation of       *)
(* Agent.Run.  SpecAnim is ui.ThinkingAnimation: the callers of Start and  *)
(* Stop and the goroutine Start launches.                                  *)
(***************************************************************************)
EXTENDS Integers, Sequences, FiniteSets, TLC

VARIABLES
    disk,      \* the file at the target path: [exists, bytes]
    pc,        \* position of the EditFile call
    ops,       \* editFileInput.Operations of the call
    lines,     \* the local variable lines of EditFile
    i,         \* 1-based index of the next operation of the loop
    err,       \* the error EditFile returns: [index, type, cause]
    before,    \* history: the file as it was when the call started
    loaded,    \* history: lines as the loader produced them
    applied,   \* history: indexes of the operations applyOperation was called for
    io,        \* history: outcome of os.Stat / os.ReadFile / os.WriteFile
    workingDir, \* a.workingDir
    call,      \* history: the last tool call or /cd, and the places it touched
    conversation, \* the local variable conversation of Agent.Run
    nextId,    \* the number of the next message appended to the conversation
    managed,   \* history: the last call of manageConversationLength
    ta,        \* the ThinkingAnimation: [stopChan, wg, running, mu]
    anims,     \* the animation goroutines alive: the dots each has printed
    thread,    \* the callers of Start and Stop
    panicked   \* a closed channel was closed again

editVars == <<disk, pc, ops, lines, i, err, before, loaded, applied, io>>
pathVars == <<workingDir, call>>
convVars == <<conversation, nextId, managed>>
animVars == <<ta, anims, thread, panicked>>
vars ==
    <<disk, pc, ops, lines, i, err, before, loaded, applied, io, workingDir, call,
      conversation, nextId, managed, ta, anims, thread, panicked>>

----------------------------------------------------------------------------
(* Bounds of the model *)

MaxFileBytes == 5   \* files of Init hold at most this many bytes
MaxOps == 2         \* operations per batch of an EditFile call
MaxLines == 4       \* lines of a document handed to a single handler

----------------------------------------------------------------------------
(* Values *)

NL == "\n"

Nil == <<>>
Some(v) == <<v>>
IsNil(p) == Len(p) = 0
Deref(p) == p[1]

Min(S) == CHOOSE m \in S : \A n \in S : m <= n

\* all sequences over S of length at most n
SeqsUpTo(S, n) == UNION {[1..k -> S] : k \in 0..n}

\* Go's s[:k] and s[k:] for a slice s and 0 <= k <= len(s)
SliceTo(s, k) == SubSeq(s, 1, k)
SliceFrom(s, k) == SubSeq(s, k + 1, Len(s))

\* strings.Split(s, "\n"): the pieces between the terminators; k terminators
\* give k+1 pieces, so Split of the empty string is one empty piece
RECURSIVE Split(_)
Split(s) ==
    LET at == {k \in 1..Len(s) : s[k] = NL}
    IN  IF at = {} THEN <<s>>
        ELSE <<SliceTo(s, Min(at) - 1)>> \o Split(SliceFrom(s, Min(at)))

\* strings.Join(ls, "\n")
RECURSIVE Join(_)
Join(ls) ==
    IF Len(ls) = 0 THEN <<>>
    ELSE IF Len(ls) = 1 THEN ls[1]
    ELSE ls[1] \o <<NL>> \o Join(Tail(ls))

----------------------------------------------------------------------------
(* Loader and writer of EditFile *)

\* ReadLines with a bug: the empty piece after the final terminator is kept
ReadLinesKeepsTrailing(content) == Split(content)

\* main.go 681-685: split the content, drop one trailing empty piece
ReadLines(content) ==
    LET ls == Split(content)
    IN  IF Len(ls) > 0 /\ ls[Len(ls)] = <<>> THEN SliceTo(ls, Len(ls) - 1) ELSE ls

\* Serialize with a bug: the final terminator is added to an empty document too
SerializeAlwaysTerminated(ls) == Join(ls) \o <<NL>>

\* Serialize with a bug: no final terminator is added
SerializeUnterminated(ls) == Join(ls)

\* main.go 697-700: join, and one final terminator when there is a line
Serialize(ls) ==
    IF Len(ls) > 0 THEN Join(ls) \o <<NL>> ELSE Join(ls)

----------------------------------------------------------------------------
(* Results of a handler: ([]string, error) *)

NoErr == [kind |-> "none", nums |-> <<>>, text |-> ""]

\* an error whose message is built from the numbers nums and the string text
Error(kind, nums, text) == [kind |-> kind, nums |-> nums, text |-> text]

Ok(ls) == [ok |-> TRUE, lines |-> ls, err |-> NoErr]
Fail(e) == [ok |-> FALSE, lines |-> <<>>, err |-> e]

----------------------------------------------------------------------------
(* The handlers *)

\* applyInsert with a bug: 'at' refuses the line after the last one
applyInsertAtOffByOne(ls, op) ==
    LET insertLines == Split(op.Content)
        pos == op.Location.Position
        ln == op.Location.LineNumber
    IN  CASE pos = "start" -> Ok(insertLines \o ls)
          [] pos = "end" -> Ok(ls \o insertLines)
          [] pos = "at" ->
                IF ~IsNil(ln)
                THEN LET lineNum == Deref(ln)
                     IN  IF lineNum < 1
                         THEN Fail(Error("line_lt_1", <<>>, ""))
                         ELSE IF lineNum > Len(ls)
                         THEN Fail(Error("beyond_eof", <<lineNum, Len(ls)>>, ""))
                         ELSE LET insertPos == lineNum - 1
                              IN  Ok(SliceTo(ls, insertPos) \o insertLines
                                        \o SliceFrom(ls, insertPos))
                ELSE Fail(Error("line_number_required", <<>>, "at"))
          [] pos \in {"before", "after"} ->
                IF ~IsNil(ln)
                THEN LET lineNum == Deref(ln)
                     IN  IF lineNum < 1 \/ lineNum > Len(ls)
                         THEN Fail(Error("out_of_range", <<lineNum, 1, Len(ls)>>, ""))
                         ELSE LET insertPos == IF pos = "after" THEN lineNum ELSE lineNum - 1
                              IN  Ok(SliceTo(ls, insertPos) \o insertLines
                                        \o SliceFrom(ls, insertPos))
                ELSE Fail(Error("line_number_required", <<>>, pos))
          [] OTHER -> Fail(Error("invalid_position", <<>>, pos))

\* applyInsert with a bug: 'after' splices before the line, like 'before'
applyInsertAfterAsBefore(ls, op) ==
    LET insertLines == Split(op.Content)
        pos == op.Location.Position
        ln == op.Location.LineNumber
    IN  CASE pos = "start" -> Ok(insertLines \o ls)
          [] pos = "end" -> Ok(ls \o insertLines)
          [] pos = "at" ->
                IF ~IsNil(ln)
                THEN LET lineNum == Deref(ln)
                     IN  IF lineNum < 1
                         THEN Fail(Error("line_lt_1", <<>>, ""))
                         ELSE IF lineNum > Len(ls) + 1
                         THEN Fail(Error("beyond_eof", <<lineNum, Len(ls)>>, ""))
                         ELSE LET insertPos == lineNum - 1
                              IN  Ok(SliceTo(ls, insertPos) \o insertLines
                                        \o SliceFrom(ls, insertPos))
                ELSE Fail(Error("line_number_required", <<>>, "at"))
          [] pos \in {"before", "after"} ->
                IF ~IsNil(ln)
                THEN LET lineNum == Deref(ln)
                     IN  IF lineNum < 1 \/ lineNum > Len(ls)
                         THEN Fail(Error("out_of_range", <<lineNum, 1, Len(ls)>>, ""))
                         ELSE LET insertPos == lineNum - 1
                              IN  Ok(SliceTo(ls, insertPos) \o insertLines
                                        \o SliceFrom(ls, insertPos))
                ELSE Fail(Error("line_number_required", <<>>, pos))
          [] OTHER -> Fail(Error("invalid_position", <<>>, pos))

\* applyInsert with a bug: 'end' puts the new lines first, like 'start'
applyInsertEndAsStart(ls, op) ==
    LET insertLines == Split(op.Content)
        pos == op.Location.Position
        ln == op.Location.LineNumber
    IN  CASE pos = "start" -> Ok(insertLines \o ls)
          [] pos = "end" -> Ok(insertLines \o ls)
          [] pos = "at" ->
                IF ~IsNil(ln)
                THEN LET lineNum == Deref(ln)
                     IN  IF lineNum < 1
                         THEN Fail(Error("line_lt_1", <<>>, ""))
                         ELSE IF lineNum > Len(ls) + 1
                         THEN Fail(Error("beyond_eof", <<lineNum, Len(ls)>>, ""))
                         ELSE LET insertPos == lineNum - 1
                              IN  Ok(SliceTo(ls, insertPos) \o insertLines
                                        \o SliceFrom(ls, insertPos))
                ELSE Fail(Error("line_number_required", <<>>, "at"))
          [] pos \in {"before", "after"} ->
                IF ~IsNil(ln)
                THEN LET lineNum == Deref(ln)
                     IN  IF lineNum < 1 \/ lineNum > Len(ls)
                         THEN Fail(Error("out_of_range", <<lineNum, 1, Len(ls)>>, ""))
                         ELSE LET insertPos == IF pos = "after" THEN lineNum ELSE lineNum - 1
                              IN  Ok(SliceTo(ls, insertPos) \o insertLines
                                        \o SliceFrom(ls, insertPos))
                ELSE Fail(Error("line_number_required", <<>>, pos))
          [] OTHER -> Fail(Error("invalid_position", <<>>, pos))

\* applyInsert with a bug: a position that is not known is taken as 'end'
applyInsertDefaultsToEnd(ls, op) ==
    LET insertLines == Split(op.Content)
        pos == op.Location.Position
        ln == op.Location.LineNumber
    IN  CASE pos = "start" -> Ok(insertLines \o ls)
          [] pos = "at" ->
                IF ~IsNil(ln)
                THEN LET lineNum == Deref(ln)
                     IN  IF lineNum < 1
                         THEN Fail(Error("line_lt_1", <<>>, ""))
                         ELSE IF lineNum > Len(ls) + 1
                         THEN Fail(Error("beyond_eof", <<lineNum, Len(ls)>>, ""))
                         ELSE LET insertPos == lineNum - 1
                              IN  Ok(SliceTo(ls, insertPos) \o insertLines
                                        \o SliceFrom(ls, insertPos))
                ELSE Fail(Error("line_number_required", <<>>, "at"))
          [] pos \in {"before", "after"} ->
                IF ~IsNil(ln)
                THEN LET lineNum == Deref(ln)
                     IN  IF lineNum < 1 \/ lineNum > Len(ls)
                         THEN Fail(Error("out_of_range", <<lineNum, 1, Len(ls)>>, ""))
                         ELSE LET insertPos == IF pos = "after" THEN lineNum ELSE lineNum - 1
                              IN  Ok(SliceTo(ls, insertPos) \o insertLines
                                        \o SliceFrom(ls, insertPos))
                ELSE Fail(Error("line_number_required", <<>>, pos))
          [] OTHER -> Ok(ls \o insertLines)

\* main.go 727-773
applyInsert(ls, op) ==
    LET insertLines == Split(op.Content)
        pos == op.Location.Position
        ln == op.Location.LineNumber
    IN  CASE pos = "start" -> Ok(insertLines \o ls)
          [] pos = "end" -> Ok(ls \o insertLines)
          [] pos = "at" ->
                IF ~IsNil(ln)
                THEN LET lineNum == Deref(ln)
                     IN  IF lineNum < 1
                         THEN Fail(Error("line_lt_1", <<>>, ""))
                         ELSE IF lineNum > Len(ls) + 1
                         THEN Fail(Error("beyond_eof", <<lineNum, Len(ls)>>, ""))
                         ELSE LET insertPos == lineNum - 1
                              IN  Ok(SliceTo(ls, insertPos) \o insertLines
                                        \o SliceFrom(ls, insertPos))
                ELSE Fail(Error("line_number_required", <<>>, "at"))
          [] pos \in {"before", "after"} ->
                IF ~IsNil(ln)
                THEN LET lineNum == Deref(ln)
                     IN  IF lineNum < 1 \/ lineNum > Len(ls)
                         THEN Fail(Error("out_of_range", <<lineNum, 1, Len(ls)>>, ""))
                         ELSE LET insertPos == IF pos = "after" THEN lineNum ELSE lineNum - 1
                              IN  Ok(SliceTo(ls, insertPos) \o insertLines
                                        \o SliceFrom(ls, insertPos))
                ELSE Fail(Error("line_number_required", <<>>, pos))
          [] OTHER -> Fail(Error("invalid_position", <<>>, pos))

\* main.go 780: the bounds test of a line range
BadRange(start, end, n) ==
    start < 1 \/ end < 1 \/ start > n \/ end > n \/ start > end

\* applyDelete with a bug: the line number is checked against the line count
\* of the loaded document instead of the current one
applyDeleteLoadedBounds(ls, op) ==
    LET lr == op.Location.LineRange
        ln == op.Location.LineNumber
    IN  IF ~IsNil(lr)
        THEN LET start == Deref(lr).Start
                 end == Deref(lr).End
             IN  IF BadRange(start, end, Len(ls))
                 THEN Fail(Error("invalid_range", <<start, end, Len(ls)>>, ""))
                 ELSE Ok(SliceTo(ls, start - 1) \o SliceFrom(ls, end))
        ELSE IF ~IsNil(ln)
        THEN LET lineNum == Deref(ln)
             IN  IF lineNum < 1 \/ lineNum > Len(loaded)
                 THEN Fail(Error("out_of_range", <<lineNum, 1, Len(loaded)>>, ""))
                 ELSE Ok(SliceTo(ls, lineNum - 1) \o SliceFrom(ls, lineNum))
        ELSE Fail(Error("location_required", <<>>, "delete"))

\* applyDelete with a bug: the last line of a range is kept
applyDeleteRangeKeepsEnd(ls, op) ==
    LET lr == op.Location.LineRange
        ln == op.Location.LineNumber
    IN  IF ~IsNil(lr)
        THEN LET start == Deref(lr).Start
                 end == Deref(lr).End
             IN  IF BadRange(start, end, Len(ls))
                 THEN Fail(Error("invalid_range", <<start, end, Len(ls)>>, ""))
                 ELSE Ok(SliceTo(ls, start - 1) \o SliceFrom(ls, end - 1))
        ELSE IF ~IsNil(ln)
        THEN LET lineNum == Deref(ln)
             IN  IF lineNum < 1 \/ lineNum > Len(ls)
                 THEN Fail(Error("out_of_range", <<lineNum, 1, Len(ls)>>, ""))
                 ELSE Ok(SliceTo(ls, lineNum - 1) \o SliceFrom(ls, lineNum))
        ELSE Fail(Error("location_required", <<>>, "delete"))

\* applyDelete with a bug: a line number beyond the last line is clamped to
\* the last line
applyDeleteClamps(ls, op) ==
    LET lr == op.Location.LineRange
        ln == op.Location.LineNumber
    IN  IF ~IsNil(lr)
        THEN LET start == Deref(lr).Start
                 end == Deref(lr).End
             IN  IF BadRange(start, end, Len(ls))
                 THEN Fail(Error("invalid_range", <<start, end, Len(ls)>>, ""))
                 ELSE Ok(SliceTo(ls, start - 1) \o SliceFrom(ls, end))
        ELSE IF ~IsNil(ln)
        THEN LET lineNum == IF Deref(ln) > Len(ls) THEN Len(ls) ELSE Deref(ln)
             IN  IF lineNum < 1
                 THEN Fail(Error("out_of_range", <<lineNum, 1, Len(ls)>>, ""))
                 ELSE Ok(SliceTo(ls, lineNum - 1) \o SliceFrom(ls, lineNum))
        ELSE Fail(Error("location_required", <<>>, "delete"))

\* applyDelete with a bug: line_number is looked at first, line_range only
\* when there is no line_number
applyDeleteNumberFirst(ls, op) ==
    LET lr == op.Location.LineRange
        ln == op.Location.LineNumber
    IN  IF ~IsNil(ln)
        THEN LET lineNum == Deref(ln)
             IN  IF lineNum < 1 \/ lineNum > Len(ls)
                 THEN Fail(Error("out_of_range", <<lineNum, 1, Len(ls)>>, ""))
                 ELSE Ok(SliceTo(ls, lineNum - 1) \o SliceFrom(ls, lineNum))
        ELSE IF ~IsNil(lr)
        THEN LET start == Deref(lr).Start
                 end == Deref(lr).End
             IN  IF BadRange(start, end, Len(ls))
                 THEN Fail(Error("invalid_range", <<start, end, Len(ls)>>, ""))
                 ELSE Ok(SliceTo(ls, start - 1) \o SliceFrom(ls, end))
        ELSE Fail(Error("location_required", <<>>, "delete"))

\* main.go 776-803
applyDelete(ls, op) ==
    LET lr == op.Location.LineRange
        ln == op.Location.LineNumber
    IN  IF ~IsNil(lr)
        THEN LET start == Deref(lr).Start
                 end == Deref(lr).End
             IN  IF BadRange(start, end, Len(ls))
                 THEN Fail(Error("invalid_range", <<start, end, Len(ls)>>, ""))
                 ELSE Ok(SliceTo(ls, start - 1) \o SliceFrom(ls, end))
        ELSE IF ~IsNil(ln)
        THEN LET lineNum == Deref(ln)
             IN  IF lineNum < 1 \/ lineNum > Len(ls)
                 THEN Fail(Error("out_of_range", <<lineNum, 1, Len(ls)>>, ""))
                 ELSE Ok(SliceTo(ls, lineNum - 1) \o SliceFrom(ls, lineNum))
        ELSE Fail(Error("location_required", <<>>, "delete"))

\* applyReplace with a bug: the replaced line is kept after the new lines
applyReplaceKeepsLine(ls, op) ==
    LET replacementLines == Split(op.Content)
        lr == op.Location.LineRange
        ln == op.Location.LineNumber
    IN  IF ~IsNil(lr)
        THEN LET start == Deref(lr).Start
                 end == Deref(lr).End
             IN  IF BadRange(start, end, Len(ls))
                 THEN Fail(Error("invalid_range", <<start, end, Len(ls)>>, ""))
                 ELSE Ok(SliceTo(ls, start - 1) \o replacementLines \o SliceFrom(ls, end))
        ELSE IF ~IsNil(ln)
        THEN LET lineNum == Deref(ln)
             IN  IF lineNum < 1 \/ lineNum > Len(ls)
                 THEN Fail(Error("out_of_range", <<lineNum, 1, Len(ls)>>, ""))
                 ELSE Ok(SliceTo(ls, lineNum - 1) \o replacementLines
                            \o SliceFrom(ls, lineNum - 1))
        ELSE Fail(Error("location_required", <<>>, "replace"))

\* applyReplace with a bug: the content is not split, it replaces the target
\* as one line
applyReplaceUnsplit(ls, op) ==
    LET replacementLines == <<op.Content>>
        lr == op.Location.LineRange
        ln == op.Location.LineNumber
    IN  IF ~IsNil(lr)
        THEN LET start == Deref(lr).Start
                 end == Deref(lr).End
             IN  IF BadRange(start, end, Len(ls))
                 THEN Fail(Error("invalid_range", <<start, end, Len(ls)>>, ""))
                 ELSE Ok(SliceTo(ls, start - 1) \o replacementLines \o SliceFrom(ls, end))
        ELSE IF ~IsNil(ln)
        THEN LET lineNum == Deref(ln)
             IN  IF lineNum < 1 \/ lineNum > Len(ls)
                 THEN Fail(Error("out_of_range", <<lineNum, 1, Len(ls)>>, ""))
                 ELSE Ok(SliceTo(ls, lineNum - 1) \o replacementLines
                            \o SliceFrom(ls, lineNum))
        ELSE Fail(Error("location_required", <<>>, "replace"))

\* main.go 806-837
applyReplace(ls, op) ==
    LET replacementLines == Split(op.Content)
        lr == op.Location.LineRange
        ln == op.Location.LineNumber
    IN  IF ~IsNil(lr)
        THEN LET start == Deref(lr).Start
                 end == Deref(lr).End
             IN  IF BadRange(start, end, Len(ls))
                 THEN Fail(Error("invalid_range", <<start, end, Len(ls)>>, ""))
                 ELSE Ok(SliceTo(ls, start - 1) \o replacementLines \o SliceFrom(ls, end))
        ELSE IF ~IsNil(ln)
        THEN LET lineNum == Deref(ln)
             IN  IF lineNum < 1 \/ lineNum > Len(ls)
                 THEN Fail(Error("out_of_range", <<lineNum, 1, Len(ls)>>, ""))
                 ELSE Ok(SliceTo(ls, lineNum - 1) \o replacementLines
                            \o SliceFrom(ls, lineNum))
        ELSE Fail(Error("location_required", <<>>, "replace"))

\* applyAppend with a bug: the arguments of append are swapped, the new lines
\* come first
applyAppendPrepends(ls, op) ==
    LET appendLines == Split(op.Content)
    IN  Ok(appendLines \o ls)

\* applyAppend with a bug: the empty piece after a final line break of the
\* content is dropped, as the loader does for a file
applyAppendDropsEmpty(ls, op) ==
    LET appendLines == ReadLines(op.Content)
    IN  Ok(ls \o appendLines)

\* main.go 840-843
applyAppend(ls, op) ==
    LET appendLines == Split(op.Content)
    IN  Ok(ls \o appendLines)

\* applyOperation with a bug: an operation of another type is taken as an
\* append
applyOperationUnknownAsAppend(ls, op) ==
    CASE op.Type = "insert" -> applyInsert(ls, op)
      [] op.Type = "delete" -> applyDelete(ls, op)
      [] op.Type = "replace" -> applyReplace(ls, op)
      [] OTHER -> applyAppend(ls, op)

\* main.go 711-724
applyOperation(ls, op) ==
    CASE op.Type = "insert" -> applyInsert(ls, op)
      [] op.Type = "delete" -> applyDelete(ls, op)
      [] op.Type = "replace" -> applyReplace(ls, op)
      [] op.Type = "append" -> applyAppend(ls, op)
      [] OTHER -> Fail(Error("unknown_type", <<>>, op.Type))

----------------------------------------------------------------------------
(* Inputs *)

Op(type, position, lineNumber, lineRange, pattern, content) ==
    [Type |-> type,
     Location |-> [LineNumber |-> lineNumber, LineRange |-> lineRange,
                   Pattern |-> pattern, Position |-> position],
     Content |-> content]

Range(s, e) == Some([Start |-> s, End |-> e])

X == <<"X">>
XY == <<"X", NL, "Y">>
Hello == <<"h", "e", "l", "l", "o">>

\* the bytes of the files of Init
Bytes == {"A", NL}

Files ==
    {[exists |-> FALSE, bytes |-> <<>>]}
        \cup {[exists |-> TRUE, bytes |-> b] : b \in SeqsUpTo(Bytes, MaxFileBytes)}

\* the operations of the batches of an EditFile call
BatchOps ==
    {Op("insert", "at", Some(1), Nil, Nil, X),
     Op("insert", "at", Nil, Nil, Nil, X),
     Op("insert", "middle", Some(1), Nil, Nil, X),
     Op("delete", "", Some(4), Nil, Nil, <<>>),
     Op("delete", "", Some(5), Nil, Nil, <<>>),
     Op("delete", "", Nil, Range(1, 1), Nil, <<>>),
     Op("replace", "", Some(2), Nil, Nil, XY),
     Op("replace", "", Nil, Nil, Some("TODO"), X),
     Op("append", "", Nil, Nil, Nil, Hello),
     Op("append", "", Nil, Nil, Nil, XY),
     Op("move", "at", Some(1), Nil, Nil, X),
     Op("move", "", Nil, Range(1, 1), Nil, <<>>)}

Batches == SeqsUpTo(BatchOps, MaxOps)

\* documents handed to a single handler: n different lines, or n empty lines
Letters == <<"A", "B", "C", "D", "E", "F">>
DistinctDoc(n) == [k \in 1..n |-> <<Letters[k]>>]
BlankDoc(n) == [k \in 1..n |-> <<>>]
Docs == {DistinctDoc(n) : n \in 0..MaxLines} \cup {BlankDoc(n) : n \in 0..MaxLines}

Positions == {"at", "before", "after", "start", "end", "", "middle"}
Contents ==
    {<<>>, X, XY, <<"X", NL>>, <<NL, "X">>, <<"B">>, <<"B", NL, "C">>}
LineNumbers == {Nil} \cup {Some(n) : n \in -1..(MaxLines + 2)}
LineRanges == {Nil} \cup {Range(s, e) : s, e \in 0..(MaxLines + 1)}

InsertOps ==
    {Op("insert", pos, ln, Nil, Nil, c) :
        pos \in Positions, ln \in LineNumbers, c \in Contents}
DeleteOps ==
    {Op("delete", "", ln, lr, Nil, <<>>) : ln \in LineNumbers, lr \in LineRanges}
        \cup {Op("delete", "at", Nil, Nil, Some("TODO"), <<>>)}
ReplaceOps ==
    {Op("replace", "", ln, lr, Nil, c) :
        ln \in LineNumbers, lr \in LineRanges, c \in Contents}
        \cup {Op("replace", "at", Nil, Nil, Some("TODO"), X)}
AppendOps ==
    {Op("append", pos, ln, Nil, Nil, c) :
        pos \in {"", "start"}, ln \in {Nil, Some(1)}, c \in Contents \cup {Hello}}
OtherOps ==
    {Op(t, "at", Some(1), Nil, Nil, X) : t \in {"move", "", "Insert"}}

AllOps == InsertOps \cup DeleteOps \cup ReplaceOps \cup AppendOps \cup OtherOps

----------------------------------------------------------------------------
(* Paths: path/filepath and Agent.resolveFilePath, main.go 98-126.  A path *)
(* is a sequence of characters, like the bytes of a file.                  *)

SEP == "/"
DOT == "."
DotDot == <<DOT, DOT>>

\* strings.Contains(s, sub)
Contains(s, sub) ==
    \E k \in 1..(Len(s) - Len(sub) + 1) : SubSeq(s, k, k + Len(sub) - 1) = sub

\* strings.HasPrefix(s, prefix)
HasPrefix(s, prefix) ==
    Len(prefix) <= Len(s) /\ SubSeq(s, 1, Len(prefix)) = prefix

\* filepath.IsAbs
IsAbs(p) == Len(p) > 0 /\ p[1] = SEP

\* the elements of a path between its separators, the empty ones left out
RECURSIVE Components(_)
Components(p) ==
    IF Len(p) = 0 THEN <<>>
    ELSE IF p[1] = SEP THEN Components(Tail(p))
    ELSE LET at == {k \in 1..Len(p) : p[k] = SEP}
         IN  IF at = {} THEN <<p>>
             ELSE <<SliceTo(p, Min(at) - 1)>> \o Components(SliceFrom(p, Min(at)))

\* the elements joined by the separator
RECURSIVE JoinPath(_)
JoinPath(cs) ==
    IF Len(cs) = 0 THEN <<>>
    ELSE IF Len(cs) = 1 THEN cs[1]
    ELSE cs[1] \o <<SEP>> \o JoinPath(Tail(cs))

\* the rules of filepath.Clean applied element by element: '.' is dropped,
\* '..' removes the element before it, is dropped at the root, and is kept at
\* the start of a path that is not rooted
RECURSIVE CleanComponents(_, _, _)
CleanComponents(out, cs, rooted) ==
    IF Len(cs) = 0 THEN out
    ELSE LET c == Head(cs)
         IN  IF c = <<DOT>> THEN CleanComponents(out, Tail(cs), rooted)
             ELSE IF c = DotDot
             THEN IF Len(out) > 0 /\ out[Len(out)] # DotDot
                  THEN CleanComponents(SliceTo(out, Len(out) - 1), Tail(cs), rooted)
                  ELSE IF rooted
                  THEN CleanComponents(out, Tail(cs), rooted)
                  ELSE CleanComponents(Append(out, c), Tail(cs), rooted)
             ELSE CleanComponents(Append(out, c), Tail(cs), rooted)

\* filepath.Clean
Clean(p) ==
    LET out == CleanComponents(<<>>, Components(p), IsAbs(p))
    IN  IF IsAbs(p) THEN <<SEP>> \o JoinPath(out)
        ELSE IF Len(out) = 0 THEN <<DOT>>
        ELSE JoinPath(out)

\* filepath.Join(a, b): the non-empty arguments joined by a separator, cleaned
filepathJoin(a, b) ==
    IF Len(a) = 0 /\ Len(b) = 0 THEN <<>>
    ELSE IF Len(a) = 0 THEN Clean(b)
    ELSE IF Len(b) = 0 THEN Clean(a)
    ELSE Clean(a \o <<SEP>> \o b)

\* the current directory of the process, which the program never changes
Cwd == <<SEP>>

\* filepath.Abs
Abs(p) == IF IsAbs(p) THEN Clean(p) ELSE filepathJoin(Cwd, p)

Resolved(p) == [ok |-> TRUE, path |-> p, err |-> ""]
Unresolved(e) == [ok |-> FALSE, path |-> <<>>, err |-> e]

\* main.go 98-126, for the working directory dir
resolveFilePath(dir, relativePath) ==
    LET cleanPath == Clean(relativePath)
        fullPath == filepathJoin(dir, cleanPath)
    IN  IF Contains(cleanPath, DotDot)
        THEN Unresolved("path cannot contain '..' for security reasons")
        ELSE IF ~HasPrefix(Abs(fullPath), Abs(dir))
        THEN Unresolved("path escapes working directory")
        ELSE Resolved(fullPath)

----------------------------------------------------------------------------

(* The directory tree the tools work on.  A place is the sequence of the   *)
(* names from the root; os.Stat, os.ReadFile and os.WriteFile follow       *)
(* symbolic links, filepath.Walk does not follow the last name.            *)

Name(c) == <<c>>
Place(p) == Components(p)

\* directories / (the root), /w, /o and /o/l
FsDirs ==
    {<<>>, <<Name("w")>>, <<Name("o")>>, <<Name("o"), Name("l")>>}

\* regular files /w/s and /o/s
FsFiles == {<<Name("w"), Name("s")>>, <<Name("o"), Name("s")>>}

\* the symbolic link /w/l, which points to /o
IsLink(loc) == loc = <<Name("w"), Name("l")>>
LinkTarget(loc) == <<Name("o")>>

\* the place the names rest lead to from the place cur
RECURSIVE Follow(_, _, _)
Follow(cur, rest, followLast) ==
    IF Len(rest) = 0 THEN cur
    ELSE LET nxt == Append(cur, Head(rest))
         IN  IF IsLink(nxt) /\ (Len(rest) > 1 \/ followLast)
             THEN Follow(LinkTarget(nxt), Tail(rest), followLast)
             ELSE Follow(nxt, Tail(rest), followLast)

\* the place a path names for the operating system
Locate(p, followLast) == Follow(<<>>, Place(Abs(p)), followLast)

\* the place loc is the directory dirLoc or lies below it
Inside(loc, dirLoc) ==
    Len(dirLoc) <= Len(loc) /\ SubSeq(loc, 1, Len(dirLoc)) = dirLoc

Parent(loc) == SliceTo(loc, Len(loc) - 1)

\* main.go 74-88: os.Stat succeeds and the path is a directory
validateDirectory(dir) == Locate(dir, TRUE) \in FsDirs

\* the directory /w
HomeDir == <<SEP, "w">>

\* a tool call: the working directory it ran in, its input path, the path
\* resolveFilePath returned, and the places it read and wrote
Call(tool, dir, path, full, ok, reads, writes) ==
    [tool |-> tool, dir |-> dir, path |-> path, full |-> full, ok |-> ok,
     reads |-> reads, writes |-> writes]
NoCall == Call("none", <<>>, <<>>, <<>>, FALSE, {}, {})

----------------------------------------------------------------------------

(* The conversation (Agent.Run, main.go 317) and the thinking animation    *)
(* (ui/manager.go 43-56) before anything has happened                      *)

\* history of manageConversationLength: its input, the token count (nil when
\* counting failed), the outcome of the summary and the result
Managed(input, tokens, summary, output) ==
    [called |-> TRUE, input |-> input, tokens |-> tokens, summary |-> summary,
     output |-> output]
NotManaged ==
    [called |-> FALSE, input |-> <<>>, tokens |-> <<>>, summary |-> "none",
     output |-> <<>>]

\* main.go 318: conversation := []anthropic.MessageParam{}
ConvIdle ==
    /\ conversation = <<>>
    /\ nextId = 1
    /\ managed = NotManaged

NumCallers == 2
Callers == 1..NumCallers

\* ui/manager.go 52-56: stopChan is made once, here; mu is the caller that
\* holds the mutex (0: none), wg the counter of the WaitGroup
NewThinkingAnimation == [stopChan |-> "open", wg |-> 0, running |-> FALSE, mu |-> 0]

\* a caller of Start and Stop: where it is, how many calls it has made, and
\* how its last call ended
IdleThread == [pc |-> "idle", calls |-> 0, last |-> "none"]

AnimIdle ==
    /\ ta = NewThinkingAnimation
    /\ anims = <<>>
    /\ thread = [c \in Callers |-> IdleThread]
    /\ panicked = FALSE

----------------------------------------------------------------------------

(* Agent.EditFile, main.go 654-708 *)

NoFile == [exists |-> FALSE, bytes |-> <<>>]
File(b) == [exists |-> TRUE, bytes |-> b]

\* the error EditFile returns: index and type are those of the failing
\* operation (index 0: the failure is not an operation's)
CallError(index, type, cause) == [index |-> index, type |-> type, cause |-> cause]
NoCallError == CallError(0, "", NoErr)

Init ==
    /\ disk \in Files
    /\ pc = "idle"
    /\ ops = <<>>
    /\ lines = <<>>
    /\ i = 0
    /\ err = NoCallError
    /\ before = disk
    /\ loaded = <<>>
    /\ applied = <<>>
    /\ io = "none"
    /\ workingDir = HomeDir
    /\ call = NoCall
    /\ ConvIdle
    /\ AnimIdle

\* main.go 655-659: the input is not the JSON of an EditFileInput
ParseFails ==
    /\ pc = "idle"
    /\ pc' = "failed"
    /\ err' = CallError(0, "", Error("parse_failed", <<>>, ""))
    /\ UNCHANGED <<disk, ops, lines, i, before, loaded, applied, io>>
    /\ UNCHANGED <<pathVars, convVars, animVars>>

\* main.go 661-667: a call that is refused before the file is looked at
Refuse(batch, path) ==
    /\ pc = "idle"
    /\ path = "" \/ Len(batch) = 0
    /\ pc' = "failed"
    /\ ops' = batch
    /\ err' = IF path = ""
              THEN CallError(0, "", Error("path_required", <<>>, ""))
              ELSE CallError(0, "", Error("operation_required", <<>>, ""))
    /\ UNCHANGED <<disk, lines, i, before, loaded, applied, io>>
    /\ UNCHANGED <<pathVars, convVars, animVars>>

\* main.go 674-686 with os.Stat and os.ReadFile succeeding
LoadFile(batch, path) ==
    /\ pc = "idle"
    /\ path # "" /\ Len(batch) > 0
    /\ disk.exists
    /\ pc' = "fold"
    /\ ops' = batch
    /\ lines' = ReadLines(disk.bytes)
    /\ loaded' = lines'
    /\ i' = 1
    /\ io' = "read"
    /\ UNCHANGED <<disk, err, before, applied>>
    /\ UNCHANGED <<pathVars, convVars, animVars>>

\* main.go 675-676, 686: os.Stat returns an error (the file does not exist, or
\* any other error for a file that does), lines stays nil
StatFails(batch, path) ==
    /\ pc = "idle"
    /\ path # "" /\ Len(batch) > 0
    /\ pc' = "fold"
    /\ ops' = batch
    /\ lines' = <<>>
    /\ loaded' = lines'
    /\ i' = 1
    /\ io' = IF disk.exists THEN "stat_error" ELSE "not_exist"
    /\ UNCHANGED <<disk, err, before, applied>>
    /\ UNCHANGED <<pathVars, convVars, animVars>>

\* main.go 677-680: os.ReadFile returns an error
ReadFails(batch, path) ==
    /\ pc = "idle"
    /\ path # "" /\ Len(batch) > 0
    /\ disk.exists
    /\ pc' = "failed"
    /\ ops' = batch
    /\ err' = CallError(0, "", Error("read_failed", <<>>, ""))
    /\ io' = "read_error"
    /\ UNCHANGED <<disk, lines, i, before, loaded, applied>>
    /\ UNCHANGED <<pathVars, convVars, animVars>>

\* ApplyStep with a bug: every successful operation is written through to
\* the file at once instead of after the loop
ApplyStepWriteThrough ==
    /\ pc = "fold"
    /\ i <= Len(ops)
    /\ LET r == applyOperation(lines, ops[i])
       IN  /\ lines' = r.lines
           /\ applied' = Append(applied, i)
           /\ IF r.ok
              THEN /\ i' = i + 1
                   /\ disk' = File(Serialize(r.lines))
                   /\ UNCHANGED <<pc, err>>
              ELSE /\ pc' = "failed"
                   /\ err' = CallError(i, ops[i].Type, r.err)
                   /\ UNCHANGED <<i, disk>>
    /\ UNCHANGED <<ops, before, loaded, io>>
    /\ UNCHANGED <<pathVars, convVars, animVars>>

\* ApplyStep with a bug: every operation is applied to the loaded document
\* instead of the result of the previous operation
ApplyStepOnLoaded ==
    /\ pc = "fold"
    /\ i <= Len(ops)
    /\ LET r == applyOperation(loaded, ops[i])
       IN  /\ lines' = r.lines
           /\ applied' = Append(applied, i)
           /\ IF r.ok
              THEN /\ i' = i + 1
                   /\ UNCHANGED <<pc, err>>
              ELSE /\ pc' = "failed"
                   /\ err' = CallError(i, ops[i].Type, r.err)
                   /\ UNCHANGED i
    /\ UNCHANGED <<disk, ops, before, loaded, io>>
    /\ UNCHANGED <<pathVars, convVars, animVars>>

\* main.go 689-694: one iteration of the loop
ApplyStep ==
    /\ pc = "fold"
    /\ i <= Len(ops)
    /\ LET r == applyOperation(lines, ops[i])
       IN  /\ lines' = r.lines
           /\ applied' = Append(applied, i)
           /\ IF r.ok
              THEN /\ i' = i + 1
                   /\ UNCHANGED <<pc, err>>
              ELSE /\ pc' = "failed"
                   /\ err' = CallError(i, ops[i].Type, r.err)
                   /\ UNCHANGED i
    /\ UNCHANGED <<disk, ops, before, loaded, io>>
    /\ UNCHANGED <<pathVars, convVars, animVars>>

\* main.go 696-707: the loop is over, os.WriteFile succeeds
WriteFile ==
    /\ pc = "fold"
    /\ i > Len(ops)
    /\ LET newContent == Serialize(lines)
       IN  disk' = File(newContent)
    /\ pc' = "done"
    /\ UNCHANGED <<ops, lines, i, err, before, loaded, applied, io>>
    /\ UNCHANGED <<pathVars, convVars, animVars>>

\* main.go 702-705: os.WriteFile returns an error; it failed to open the file
\* (k = -1, nothing changed) or it truncated the file and wrote k bytes
WriteFails ==
    /\ pc = "fold"
    /\ i > Len(ops)
    /\ LET newContent == Serialize(lines)
       IN  \E k \in -1..(Len(newContent) - 1) :
              disk' = IF k = -1 THEN disk ELSE File(SliceTo(newContent, k))
    /\ pc' = "failed"
    /\ err' = CallError(0, "", Error("write_failed", <<>>, ""))
    /\ UNCHANGED <<ops, lines, i, before, loaded, applied, io>>
    /\ UNCHANGED <<pathVars, convVars, animVars>>

Paths == {"", "notes.txt"}

\* a call starts from the idle state only; its inputs are the batch and the
\* path, a path that resolveFilePath (main.go 669-672) accepts unless empty
Next ==
    \/ ParseFails
    \/ pc = "idle" /\ \E batch \in Batches, path \in Paths : Refuse(batch, path)
    \/ pc = "idle" /\ \E batch \in Batches, path \in Paths : LoadFile(batch, path)
    \/ pc = "idle" /\ \E batch \in Batches, path \in Paths : StatFails(batch, path)
    \/ pc = "idle" /\ \E batch \in Batches, path \in Paths : ReadFails(batch, path)
    \/ ApplyStep
    \/ WriteFile
    \/ WriteFails

Spec == Init /\ [][Next]_vars

----------------------------------------------------------------------------
(* One handler call: EditFile has loaded the document doc from its file   *)
(* and is about to apply the only operation of its batch.                 *)

InitOp ==
    \E doc \in Docs, op \in AllOps :
        /\ disk = File(Serialize(doc))
        /\ pc = "fold"
        /\ ops = <<op>>
        /\ lines = doc
        /\ i = 1
        /\ err = NoCallError
        /\ before = disk
        /\ loaded = doc
        /\ applied = <<>>
        /\ io = "read"
        /\ workingDir = HomeDir
        /\ call = NoCall
        /\ ConvIdle
        /\ AnimIdle

NextOp == ApplyStep

SpecOp == InitOp /\ [][NextOp]_vars

----------------------------------------------------------------------------
(* Properties of EditFile, checked under Spec *)

\* the call failed at one of its operations
FailedAtOp == pc = "failed" /\ err.index > 0

\* the left fold of applyOperation over the operations os starting from ls,
\* halting at the first operation that fails
RECURSIVE FoldOps(_, _)
FoldOps(ls, os) ==
    IF Len(os) = 0 THEN Ok(ls)
    ELSE LET r == applyOperation(ls, Head(os))
         IN  IF r.ok THEN FoldOps(r.lines, Tail(os)) ELSE r

\* the document before operation k of the batch
DocBefore(k) == FoldOps(loaded, SliceTo(ops, k - 1)).lines

\* C1: when an operation of the batch fails, the file is what it was when the
\* call started (and a missing file stays missing); the file changes only
\* once every operation of the batch has been applied successfully
C1_FailedBatchLeavesFile ==
    /\ FailedAtOp => disk = before
    /\ (ops # <<>> /\ ~FoldOps(loaded, ops).ok) => disk = before
    /\ disk # before =>
          /\ i = Len(ops) + 1
          /\ Len(applied) = Len(ops)
          /\ err.index = 0

\* a batch on a missing file fails at its second operation, after the first
\* one has added lines in memory
C1_Witness ==
    /\ FailedAtOp
    /\ err.index = 2
    /\ ops[1].Type \in {"insert", "append"}
    /\ ~before.exists
    /\ ~disk.exists

\* C2: the operations are applied in the supplied order, each to the result
\* of the previous one: the loop holds the left fold of the operations applied
\* so far, the written document is the fold of the whole batch, and no
\* operation after the first failing one is applied
C2_LeftFold ==
    /\ applied = [k \in 1..Len(applied) |-> k]
    /\ pc = "fold" =>
          /\ Len(applied) = i - 1
          /\ FoldOps(loaded, SliceTo(ops, i - 1)) = Ok(lines)
    /\ pc = "done" =>
          /\ FoldOps(loaded, ops).ok
          /\ disk = File(Serialize(FoldOps(loaded, ops).lines))
    /\ FailedAtOp =>
          /\ Len(applied) = err.index
          /\ FoldOps(loaded, SliceTo(ops, err.index - 1)).ok
          /\ ~applyOperation(DocBefore(err.index), ops[err.index]).ok

\* a batch of two operations was written whose result depends on their order
C2_Witness ==
    /\ pc = "done"
    /\ Len(ops) = 2
    /\ Len(loaded) > 0
    /\ FoldOps(loaded, <<ops[2], ops[1]>>) # FoldOps(loaded, ops)
    /\ disk # before

InsertOneLineAt1(op) ==
    /\ op.Type = "insert"
    /\ op.Location.Position = "at"
    /\ op.Location.LineNumber = Some(1)
    /\ Len(Split(op.Content)) = 1

DeleteLine(op, n) ==
    /\ op.Type = "delete"
    /\ op.Location.LineNumber = Some(n)
    /\ IsNil(op.Location.LineRange)

\* C3: bounds are checked against the document as the preceding operations
\* left it: a range error names the line count of that document; on a 3-line
\* file [insert a line at 1, delete line 5] fails at operation 2 with the file
\* unmodified, and [insert a line at 1, delete line 4] succeeds
C3_BoundsOfCurrentDocument ==
    /\ (FailedAtOp /\ err.cause.kind \in {"out_of_range", "beyond_eof", "invalid_range"})
          => err.cause.nums[Len(err.cause.nums)] = Len(DocBefore(err.index))
    /\ (Len(loaded) = 3 /\ Len(ops) = 2 /\ InsertOneLineAt1(ops[1]) /\ Len(applied) = 2) =>
          /\ DeleteLine(ops[2], 5) =>
                /\ pc = "failed"
                /\ err.index = 2
                /\ err.cause = Error("out_of_range", <<5, 1, 4>>, "")
                /\ disk = before
          /\ DeleteLine(ops[2], 4) =>
                /\ pc # "failed" \/ err.cause.kind = "write_failed"
                /\ pc \in {"fold", "done"} => lines = Split(ops[1].Content) \o SliceTo(loaded, 2)
                /\ pc = "done" => disk = File(Serialize(lines))

\* [insert a line at 1, delete line 4] has been applied to a 3-line file and
\* written
C3_Witness ==
    /\ pc = "done"
    /\ Len(loaded) = 3
    /\ Len(ops) = 2
    /\ InsertOneLineAt1(ops[1])
    /\ DeleteLine(ops[2], 4)
    /\ Len(lines) = 3
    /\ before.exists
    /\ disk # before

----------------------------------------------------------------------------
(* Properties of the handlers, checked under SpecOp: the batch is the one  *)
(* operation TheOp, applied to the document loaded                         *)

TheOp == ops[1]
Handled == Len(ops) = 1 /\ Len(applied) = 1
Succeeded == pc = "fold" /\ i = 2
Rejected == pc = "failed" /\ err.index = 1 /\ err.cause.kind # "none"

NewLines == Split(TheOp.Content)
HasLineNumber == ~IsNil(TheOp.Location.LineNumber)
HasLineRange == ~IsNil(TheOp.Location.LineRange)
TheLine == Deref(TheOp.Location.LineNumber)
A == <<"A">>
B == <<"B">>
C == <<"C">>
D == <<"D">>

InsertWith(positions) ==
    Handled /\ TheOp.Type = "insert" /\ TheOp.Location.Position \in positions

\* C4: insert 'at' line L of an N-line document succeeds exactly when
\* 1 <= L <= N+1 and yields lines[1..L-1] ++ new ++ lines[L..N]; it is
\* rejected when L < 1 or L >= N+2
C4_InsertAt ==
    (InsertWith({"at"}) /\ HasLineNumber) =>
        LET L == TheLine
            N == Len(loaded)
        IN  /\ Succeeded <=> (1 <= L /\ L <= N + 1)
            /\ Rejected <=> (L < 1 \/ L >= N + 2)
            /\ Succeeded =>
                  /\ lines = SubSeq(loaded, 1, L - 1) \o NewLines \o SubSeq(loaded, L, N)
                  /\ lines[L] = NewLines[1]
                  /\ L = N + 1 => SubSeq(lines, 1, N) = loaded
            /\ (loaded = <<A, B, C>> /\ TheOp.Content = X) =>
                  /\ L = 4 => lines = <<A, B, C, X>>
                  /\ L = 5 => Rejected

\* X was inserted at line 4 of [A,B,C]
C4_Witness ==
    /\ InsertWith({"at"})
    /\ loaded = <<A, B, C>>
    /\ TheOp.Location.LineNumber = Some(4)
    /\ lines = <<A, B, C, X>>
    /\ Succeeded

\* C5: insert 'before' or 'after' line L of an N-line document succeeds
\* exactly when 1 <= L <= N; 'before' yields lines[1..L-1] ++ new ++
\* lines[L..N], 'after' yields lines[1..L] ++ new ++ lines[L+1..N]
C5_InsertBeforeAfter ==
    (InsertWith({"before", "after"}) /\ HasLineNumber) =>
        LET L == TheLine
            N == Len(loaded)
        IN  /\ Succeeded <=> (1 <= L /\ L <= N)
            /\ Rejected <=> ~(1 <= L /\ L <= N)
            /\ N = 0 => Rejected
            /\ L = N + 1 => Rejected
            /\ (Succeeded /\ TheOp.Location.Position = "before") =>
                  lines = SubSeq(loaded, 1, L - 1) \o NewLines \o SubSeq(loaded, L, N)
            /\ (Succeeded /\ TheOp.Location.Position = "after") =>
                  lines = SubSeq(loaded, 1, L) \o NewLines \o SubSeq(loaded, L + 1, N)

\* two lines were inserted after line 2 of [A,B,C]
C5_Witness ==
    /\ InsertWith({"after"})
    /\ loaded = <<A, B, C>>
    /\ TheOp.Location.LineNumber = Some(2)
    /\ lines = <<A, B, <<"X">>, <<"Y">>, C>>
    /\ Succeeded

\* C6: insert 'start' yields new ++ lines, insert 'end' yields lines ++ new,
\* and insert 'end' yields the document an append of the same content yields
C6_InsertStartEnd ==
    InsertWith({"start", "end"}) =>
        /\ Succeeded
        /\ TheOp.Location.Position = "start" =>
              /\ lines = NewLines \o loaded
              /\ (loaded = <<A, B, C>> /\ TheOp.Content = X) => lines = <<X, A, B, C>>
        /\ TheOp.Location.Position = "end" =>
              /\ lines = loaded \o NewLines
              /\ Ok(lines) = applyOperation(loaded, [TheOp EXCEPT !.Type = "append"])

\* X was inserted at the start of [A,B,C]
C6_Witness ==
    /\ InsertWith({"start"})
    /\ loaded = <<A, B, C>>
    /\ lines = <<X, A, B, C>>

\* the lines start..end of the N-line document are addressed by TheOp
ValidLine == HasLineNumber /\ 1 <= TheLine /\ TheLine <= Len(loaded)
TheStart == IF HasLineRange THEN Deref(TheOp.Location.LineRange).Start ELSE TheLine
TheEnd == IF HasLineRange THEN Deref(TheOp.Location.LineRange).End ELSE TheLine
ValidRange ==
    HasLineRange /\ 1 <= TheStart /\ TheStart <= TheEnd /\ TheEnd <= Len(loaded)
OneAddress == HasLineNumber # HasLineRange

\* C7: delete succeeds only when it addresses a line 1 <= L <= N or a range
\* 1 <= start <= end <= N, and always when that is its one address; the
\* result is lines[1..start-1] ++ lines[end+1..N], shorter by end-start+1;
\* a range with start > end or an endpoint outside [1, N] is rejected
C7_Delete ==
    (Handled /\ TheOp.Type = "delete") =>
        LET N == Len(loaded)
        IN  /\ Succeeded \/ Rejected
            /\ Succeeded => (ValidLine \/ ValidRange)
            /\ OneAddress => (Succeeded <=> (ValidLine \/ ValidRange))
            /\ (HasLineRange /\ ~ValidRange) => Rejected
            /\ (Succeeded /\ OneAddress) =>
                  /\ lines = SubSeq(loaded, 1, TheStart - 1) \o SubSeq(loaded, TheEnd + 1, N)
                  /\ Len(lines) = N - (TheEnd - TheStart + 1)
            /\ (loaded = <<A, B, C, D>> /\ TheOp.Location.LineRange = Range(2, 3)
                    /\ ~HasLineNumber) => lines = <<A, D>>

\* the range 2..3 was deleted from [A,B,C,D]
C7_Witness ==
    /\ Handled
    /\ TheOp.Type = "delete"
    /\ loaded = <<A, B, C, D>>
    /\ TheOp.Location.LineRange = Range(2, 3)
    /\ ~HasLineNumber
    /\ lines = <<A, D>>
    /\ Succeeded

\* C8: replace has the bounds rules of delete and yields
\* lines[1..start-1] ++ new ++ lines[end+1..N], of length
\* N - (end-start+1) + Len(new)
C8_Replace ==
    (Handled /\ TheOp.Type = "replace") =>
        LET N == Len(loaded)
        IN  /\ Succeeded \/ Rejected
            /\ Succeeded => (ValidLine \/ ValidRange)
            /\ OneAddress => (Succeeded <=> (ValidLine \/ ValidRange))
            /\ (HasLineRange /\ ~ValidRange) => Rejected
            /\ (Succeeded /\ OneAddress) =>
                  /\ lines = SubSeq(loaded, 1, TheStart - 1) \o NewLines
                                \o SubSeq(loaded, TheEnd + 1, N)
                  /\ Len(lines) = N - (TheEnd - TheStart + 1) + Len(NewLines)
            /\ (loaded = <<A, B, C>> /\ TheOp.Location.LineNumber = Some(2)
                    /\ ~HasLineRange /\ TheOp.Content = XY)
                  => lines = <<A, <<"X">>, <<"Y">>, C>>

\* line 2 of [A,B,C] was replaced by the two lines X, Y
C8_Witness ==
    /\ Handled
    /\ TheOp.Type = "replace"
    /\ loaded = <<A, B, C>>
    /\ TheOp.Location.LineNumber = Some(2)
    /\ ~HasLineRange
    /\ lines = <<A, <<"X">>, <<"Y">>, C>>
    /\ Succeeded

----------------------------------------------------------------------------
(* Properties of append and of the writer, checked under Spec *)

\* C9: append never fails and yields the document before it followed by the
\* content's split lines; on an empty document (absent or empty file) the
\* appended lines are the whole document, and a content without line break
\* is written as that content followed by exactly one terminator
C9_Append ==
    /\ FailedAtOp => ops[err.index].Type # "append"
    /\ \A k \in 1..Len(ops) :
          (pc = "fold" /\ i = k + 1 /\ ops[k].Type = "append") =>
              lines = DocBefore(k) \o Split(ops[k].Content)
    /\ (pc \in {"fold", "done"} /\ i = 2 /\ ops[1].Type = "append" /\ loaded = <<>>) =>
          /\ lines = Split(ops[1].Content)
          /\ NL \notin {ops[1].Content[k] : k \in 1..Len(ops[1].Content)} =>
                /\ lines = <<ops[1].Content>>
                /\ (pc = "done" /\ Len(ops) = 1) =>
                      disk = File(ops[1].Content \o <<NL>>)

\* hello was appended to a missing file, which now holds hello and one
\* terminator
C9_Witness ==
    /\ pc = "done"
    /\ ~before.exists
    /\ Len(ops) = 1
    /\ ops[1].Type = "append"
    /\ lines = <<Hello>>
    /\ disk = File(<<"h", "e", "l", "l", "o", NL>>)

\* every line followed by one terminator
RECURSIVE Terminated(_)
Terminated(ls) ==
    IF Len(ls) = 0 THEN <<>> ELSE ls[1] \o <<NL>> \o Terminated(Tail(ls))

Terminators(bytes) == Cardinality({k \in 1..Len(bytes) : bytes[k] = NL})

\* C10: the written file is the lines joined by one terminator plus one
\* trailing terminator, that is every line followed by one terminator, and
\* zero bytes for the empty document; nothing of the prior content remains
C10_Writer ==
    pc = "done" =>
        /\ disk.exists
        /\ disk.bytes = Terminated(lines)
        /\ Terminators(disk.bytes) = Len(lines)
        /\ lines = <<>> <=> disk.bytes = <<>>
        /\ lines # <<>> =>
              /\ disk.bytes[Len(disk.bytes)] = NL
              /\ SliceTo(disk.bytes, Len(disk.bytes) - 1) = Join(lines)

\* the last line of a file was deleted and the file written as zero bytes
C10_Witness ==
    /\ pc = "done"
    /\ before.exists
    /\ before.bytes # <<>>
    /\ loaded # <<>>
    /\ lines = <<>>
    /\ disk = File(<<>>)

----------------------------------------------------------------------------
(* Loader and round trip, checked under Spec *)

EndsTerminated(bytes) == Len(bytes) > 0 /\ bytes[Len(bytes)] = NL

\* C11: a file that ends with a terminator loads as exactly the lines before
\* the terminators (k terminated lines give k lines, no empty line after the
\* last one), a zero-byte file as no line, and a missing file as no line, so
\* that a batch that succeeds on a missing path creates the file
C11_Loader ==
    /\ (io = "read" /\ EndsTerminated(before.bytes)) =>
          /\ Terminated(loaded) = before.bytes
          /\ Len(loaded) = Terminators(before.bytes)
    /\ (io = "read" /\ before.bytes = <<>>) => loaded = <<>>
    /\ io = "not_exist" =>
          /\ ~before.exists
          /\ loaded = <<>>
          /\ pc = "done" => disk.exists

\* a file of a line A and an empty line, both terminated, was loaded as these
\* two lines
C11_Witness ==
    /\ io = "read"
    /\ before.bytes = <<"A", NL, NL>>
    /\ loaded = <<A, <<>>>>
    /\ pc = "fold"

\* the document has just been loaded from an existing file
JustLoaded == io = "read" /\ pc = "fold" /\ i = 1

\* the batch left the document as it was loaded, and the file was written
WrittenBack == io = "read" /\ pc = "done" /\ lines = loaded

\* the content with its last line terminated
WithFinalTerminator(bytes) ==
    IF bytes = <<>> \/ EndsTerminated(bytes) THEN bytes ELSE bytes \o <<NL>>

\* C12 as stated: for every file content, also one whose last line is not
\* terminated, serializing the document just loaded gives the bytes of the
\* file
C12_RoundTrip == JustLoaded => Serialize(lines) = before.bytes

\* C12 amended: serializing the document just loaded gives the bytes of the
\* file when the file is empty or ends with a terminator (files ending in
\* empty lines included), and the bytes plus one terminator when its last
\* line is not terminated; a batch that leaves the document as loaded writes
\* these bytes
C12_RoundTripTerminated ==
    /\ JustLoaded => Serialize(lines) = WithFinalTerminator(before.bytes)
    /\ (JustLoaded /\ (before.bytes = <<>> \/ EndsTerminated(before.bytes))) =>
          File(Serialize(lines)) = before
    /\ (JustLoaded /\ before.bytes # <<>> /\ ~EndsTerminated(before.bytes)) =>
          /\ File(Serialize(lines)) # before
          /\ Len(Serialize(lines)) = Len(before.bytes) + 1
    /\ WrittenBack => disk = File(WithFinalTerminator(before.bytes))

\* a file that ends in an empty line was loaded, a line was inserted and
\* deleted again, and the file written is the file read
C12_Witness ==
    /\ WrittenBack
    /\ before.bytes = <<"A", NL, NL>>
    /\ applied = <<1, 2>>
    /\ disk = before

----------------------------------------------------------------------------
(* Further properties of the handlers, checked under SpecOp *)

\* the text of the addressed lines of the document, joined by the terminator
OwnText == Join(SubSeq(loaded, TheStart, TheEnd))

\* C13: replacing a line L, 1 <= L <= N, with its own text, or a range with
\* its own lines joined by the terminator, succeeds and yields the document
\* unchanged
C13_ReplaceWithOwnText ==
    (/\ Handled
     /\ TheOp.Type = "replace"
     /\ OneAddress
     /\ ValidLine \/ ValidRange
     /\ TheOp.Content = OwnText) =>
        /\ Succeeded
        /\ lines = loaded

\* lines 2-3 of A, B, C, D were replaced with their own two lines
C13_Witness ==
    /\ Handled
    /\ Succeeded
    /\ TheOp.Type = "replace"
    /\ loaded = <<A, B, C, D>>
    /\ TheOp.Location.LineRange = Range(2, 3)
    /\ ~HasLineNumber
    /\ TheOp.Content = <<"B", NL, "C">>
    /\ lines = loaded

----------------------------------------------------------------------------
(* Errors of an EditFile call, checked under Spec *)

KnownTypes == {"insert", "delete", "replace", "append"}

\* C14: an operation whose type is not insert, delete, replace or append
\* fails, whatever its location and content hold; the error names the type
\* string, no operation follows it, and the file stays what it was
C14_UnknownType ==
    \A k \in 1..Len(applied) :
        ops[k].Type \notin KnownTypes =>
            /\ pc = "failed"
            /\ k = Len(applied)
            /\ err.index = k
            /\ err.type = ops[k].Type
            /\ err.cause = Error("unknown_type", <<>>, ops[k].Type)
            /\ disk = before

\* a move that carries a line range and no content came second in a batch on
\* an existing file and was refused by name
C14_Witness ==
    /\ pc = "failed"
    /\ applied = <<1, 2>>
    /\ ops[2] = Op("move", "", Nil, Range(1, 1), Nil, <<>>)
    /\ err.cause.text = "move"
    /\ before.exists
    /\ loaded # <<>>
    /\ disk = before

\* an operation that is malformed whatever the document holds: another type,
\* an insert with an invalid position or without the line number its position
\* needs, a delete or replace without line number and line range
Malformed(op) ==
    \/ op.Type \notin KnownTypes
    \/ /\ op.Type = "insert"
       /\ op.Location.Position \notin {"at", "before", "after", "start", "end"}
    \/ /\ op.Type = "insert"
       /\ op.Location.Position \in {"at", "before", "after"}
       /\ IsNil(op.Location.LineNumber)
    \/ /\ op.Type \in {"delete", "replace"}
       /\ IsNil(op.Location.LineNumber)
       /\ IsNil(op.Location.LineRange)

\* C15 as stated: when the batch holds a malformed operation at any index, no
\* operation of the batch is applied to the lines in memory
C15_ValidationBeforeMutation ==
    (\E k \in 1..Len(ops) : Malformed(ops[k])) => i <= 1

----------------------------------------------------------------------------
(* Error messages of the handlers, checked under SpecOp *)

\* the line references that the handler found at fault
OffendingLines ==
    IF TheOp.Type \in {"delete", "replace"} /\ HasLineRange
    THEN <<TheStart, TheEnd>>
    ELSE IF HasLineNumber
            /\ (TheOp.Type = "insert" =>
                    TheOp.Location.Position \in {"at", "before", "after"})
    THEN <<TheLine>>
    ELSE <<>>

\* the numbers of the message start with the offending line numbers and end
\* with the line count of the document
NamesLinesAndCount ==
    LET nums == err.cause.nums
    IN  /\ Len(nums) > Len(OffendingLines)
        /\ SubSeq(nums, 1, Len(OffendingLines)) = OffendingLines
        /\ nums[Len(nums)] = Len(loaded)

\* C16 as stated: the error of a failing insert, delete or replace carries
\* the 1-based index and the type of the operation, and names the offending
\* line numbers and the line count of the document, on every failure path
C16_ErrorsNameLineAndCount ==
    (Handled /\ Rejected /\ TheOp.Type \in {"insert", "delete", "replace"}) =>
        /\ err.index = 1
        /\ err.type = TheOp.Type
        /\ NamesLinesAndCount

----------------------------------------------------------------------------
(* I/O errors and line references *)

\* C17 as stated: when os.Stat or os.ReadFile fails on a file that exists, the
\* call fails with an I/O error, applies no operation and writes nothing
C17_IoFailureSurfaces ==
    io \in {"stat_error", "read_error"} =>
        /\ pc = "failed"
        /\ err.cause.kind = "read_failed"
        /\ applied = <<>>
        /\ disk = before

\* the line references an operation supplies
SuppliedRefs ==
    (IF HasLineNumber THEN {TheLine} ELSE {})
        \cup (IF HasLineRange
              THEN {Deref(TheOp.Location.LineRange).Start,
                    Deref(TheOp.Location.LineRange).End}
              ELSE {})

\* the line references the handler of the operation reads
ConsultedRefs ==
    CASE TheOp.Type = "insert" ->
            IF TheOp.Location.Position \in {"at", "before", "after"} /\ HasLineNumber
            THEN {TheLine} ELSE {}
      [] TheOp.Type \in {"delete", "replace"} ->
            IF HasLineRange
            THEN {Deref(TheOp.Location.LineRange).Start,
                  Deref(TheOp.Location.LineRange).End}
            ELSE IF HasLineNumber THEN {TheLine} ELSE {}
      [] OTHER -> {}

\* the operation without the line references its handler does not read
Consulted(op) ==
    LET keepNumber ==
            \/ op.Type = "insert" /\ op.Location.Position \in {"at", "before", "after"}
            \/ op.Type \in {"delete", "replace"} /\ IsNil(op.Location.LineRange)
        keepRange == op.Type \in {"delete", "replace"}
    IN  Op(op.Type, op.Location.Position,
           IF keepNumber THEN op.Location.LineNumber ELSE Nil,
           IF keepRange THEN op.Location.LineRange ELSE Nil,
           op.Location.Pattern, op.Content)

\* [1, N], or [1, N+1] for insert 'at'
InBounds(r) ==
    /\ 1 <= r
    /\ r <= IF TheOp.Type = "insert" /\ TheOp.Location.Position = "at"
            THEN Len(loaded) + 1 ELSE Len(loaded)

\* C18 as stated: an operation succeeds only if every line reference it
\* supplies is within bounds; a supplied reference out of bounds is never
\* ignored
C18_SuppliedReferencesInBounds ==
    (Handled /\ Succeeded) => \A r \in SuppliedRefs : InBounds(r)

\* C18 amended: an operation succeeds only if every line reference its
\* handler reads is within bounds, and one out of bounds makes it fail with a
\* range error, never clamped; the references the handler does not read (the
\* line_number of insert start/end and of append, a line_range of insert or
\* append, the line_number next to a line_range of delete or replace) do not
\* change the outcome, in or out of bounds
C18_ConsultedReferencesInBounds ==
    Handled =>
        /\ Succeeded => \A r \in ConsultedRefs : InBounds(r)
        /\ (\E r \in ConsultedRefs : ~InBounds(r)) =>
              /\ Rejected
              /\ err.cause.kind \in
                    {"line_lt_1", "beyond_eof", "out_of_range", "invalid_range"}
        /\ LET r == applyOperation(loaded, Consulted(TheOp))
           IN  /\ Succeeded <=> r.ok
               /\ Succeeded => lines = r.lines
               /\ Rejected => err.cause = r.err

\* an insert at the start that carries the line number -1 succeeded on a
\* 2-line document
C18_Witness ==
    /\ Handled
    /\ Succeeded
    /\ TheOp.Type = "insert"
    /\ TheOp.Location.Position = "start"
    /\ TheOp.Location.LineNumber = Some(-1)
    /\ TheOp.Content = X
    /\ loaded = <<A, B>>
    /\ lines = <<X, A, B>>

\* the operation was refused with this error and the file is what it was
RefusedWith(kind, text) ==
    /\ Rejected
    /\ err.type = TheOp.Type
    /\ err.cause = Error(kind, <<>>, text)
    /\ disk = before

\* C19: an insert whose position is none of at, before, after, start, end
\* (the empty position included) fails with an error naming the position; an
\* insert at, before or after without line_number fails with an error asking
\* for line_number; a delete or replace with neither line_number nor
\* line_range (also one with only a pattern) fails with an error asking for
\* one of them; the document stays what it was
C19_ValidationErrors ==
    Handled =>
        LET pos == TheOp.Location.Position
        IN  /\ (TheOp.Type = "insert"
                  /\ pos \notin {"at", "before", "after", "start", "end"}) =>
                    RefusedWith("invalid_position", pos)
            /\ (TheOp.Type = "insert" /\ pos \in {"at", "before", "after"}
                  /\ ~HasLineNumber) =>
                    RefusedWith("line_number_required", pos)
            /\ (TheOp.Type \in {"delete", "replace"}
                  /\ ~HasLineNumber /\ ~HasLineRange) =>
                    RefusedWith("location_required", TheOp.Type)

\* a delete that carries only a pattern was refused on a 2-line document
C19_Witness ==
    /\ Handled
    /\ Rejected
    /\ TheOp.Type = "delete"
    /\ TheOp.Location.Pattern = Some("TODO")
    /\ ~HasLineNumber
    /\ ~HasLineRange
    /\ loaded = <<A, B>>
    /\ err.cause.kind = "location_required"

----------------------------------------------------------------------------
(* The tools and the /cd command on the directory tree: every tool call    *)
(* resolves its path against the working directory of that moment          *)

MaxPathLen == 3

PathChars == {SEP, DOT, "l", "s"}
PathInputs == SeqsUpTo(PathChars, MaxPathLen)

\* what the user types at /cd: /w, /o, w, /w/l, /w/s (a file), /x (missing)
DirInputs ==
    {<<SEP, "w">>, <<SEP, "o">>, <<"w">>, <<SEP, "w", SEP, "l">>,
     <<SEP, "w", SEP, "s">>, <<SEP, "x">>}

\* main.go 344-366: /cd cleans the input and hands it to setWorkingDirectory
\* (89-96), which keeps the directory when validateDirectory fails
setWorkingDirectory(dir) ==
    LET newDir == Clean(dir)
    IN  /\ IF validateDirectory(newDir)
           THEN /\ workingDir' = newDir
                /\ call' = Call("cd", newDir, dir, newDir, TRUE, {}, {})
           ELSE /\ workingDir' = workingDir
                /\ call' = Call("cd", workingDir, dir, <<>>, FALSE, {}, {})
        /\ UNCHANGED <<editVars, convVars, animVars>>

\* main.go 542-559
ReadFile(path) ==
    LET r == resolveFilePath(workingDir, path)
        loc == Locate(r.path, TRUE)
    IN  /\ call' = IF ~r.ok
                   THEN Call("read_file", workingDir, path, <<>>, FALSE, {}, {})
                   ELSE IF loc \in FsFiles
                   THEN Call("read_file", workingDir, path, r.path, TRUE, {loc}, {})
                   ELSE Call("read_file", workingDir, path, r.path, FALSE, {}, {})
        /\ UNCHANGED <<workingDir, editVars, convVars, animVars>>

\* main.go 574-620: filepath.Walk lists the directory and the directories
\* below it; a root that is a link or a file is visited alone
ListFiles(path) ==
    LET r == IF path = <<>> THEN Resolved(workingDir)
             ELSE resolveFilePath(workingDir, path)
        root == Locate(r.path, FALSE)
    IN  /\ call' = IF ~r.ok
                   THEN Call("list_files", workingDir, path, <<>>, FALSE, {}, {})
                   ELSE IF root \in FsDirs
                   THEN Call("list_files", workingDir, path, r.path, TRUE,
                             {d \in FsDirs : Inside(d, root)}, {})
                   ELSE IF IsLink(root) \/ root \in FsFiles
                   THEN Call("list_files", workingDir, path, r.path, TRUE, {}, {})
                   ELSE Call("list_files", workingDir, path, r.path, FALSE, {}, {})
        /\ UNCHANGED <<workingDir, editVars, convVars, animVars>>

\* main.go 654-708 for a batch that is not empty: batchOk tells whether its
\* operations all succeed.  An existing file is read, and written when the
\* batch succeeds; a missing one is created when its directory exists
EditFile(path, batchOk) ==
    LET r == resolveFilePath(workingDir, path)
        loc == Locate(r.path, TRUE)
    IN  /\ call' = IF path = <<>> \/ ~r.ok
                   THEN Call("edit_file", workingDir, path, <<>>, FALSE, {}, {})
                   ELSE IF loc \in FsFiles
                   THEN Call("edit_file", workingDir, path, r.path, batchOk, {loc},
                             IF batchOk THEN {loc} ELSE {})
                   ELSE IF loc \notin FsDirs /\ batchOk /\ Parent(loc) \in FsDirs
                   THEN Call("edit_file", workingDir, path, r.path, TRUE, {}, {loc})
                   ELSE Call("edit_file", workingDir, path, r.path, FALSE, {}, {})
        /\ UNCHANGED <<workingDir, editVars, convVars, animVars>>

\* main.go 155-163: the agent starts in a directory that validateDirectory
\* accepted
InitPath ==
    /\ workingDir \in {Clean(d) : d \in {e \in DirInputs : validateDirectory(Clean(e))}}
    /\ call = NoCall
    /\ ConvIdle
    /\ AnimIdle
    /\ disk = NoFile
    /\ pc = "idle"
    /\ ops = <<>>
    /\ lines = <<>>
    /\ i = 0
    /\ err = NoCallError
    /\ before = disk
    /\ loaded = <<>>
    /\ applied = <<>>
    /\ io = "none"

NextPath ==
    \/ \E dir \in DirInputs : setWorkingDirectory(dir)
    \/ \E path \in PathInputs : ReadFile(path)
    \/ \E path \in PathInputs : ListFiles(path)
    \/ \E path \in PathInputs, batchOk \in BOOLEAN : EditFile(path, batchOk)

SpecPath == InitPath /\ [][NextPath]_vars

\* the call was one of the three tools
ToolCall == call.tool \in {"read_file", "list_files", "edit_file"}

\* the path the call resolved is the working directory or a path below it
LexicallyInside ==
    Inside(Place(Abs(call.full)), Place(Abs(call.dir)))

\* C20 as stated: resolveFilePath refuses every path whose cleaned form
\* contains '..', every path it returns lies in the working directory, and no
\* call of read_file, list_files or edit_file reads or writes a place outside
\* the working directory of that moment
C20_StaysInWorkingDirectory ==
    ToolCall =>
        /\ Contains(Clean(call.path), DotDot) => ~call.ok
        /\ call.full # <<>> => LexicallyInside
        /\ \A loc \in call.reads \cup call.writes :
              Inside(loc, Locate(call.dir, TRUE))

----------------------------------------------------------------------------
(* Agent.manageConversationLength, main.go 266-315.  A message is a record: *)
(* an ordinary message carries its number, a summary message the number    *)
(* of how many messages it stands for.                                     *)

MaxTokensLimit == 190000
RecentMessagesKeep == 6

MaxMessages == 14

Message(n) == [kind |-> "message", id |-> n]
SummaryMessage(n) == [kind |-> "summary", id |-> n]

\* what CountTokens answers: nil for an error, or a count
TokenCounts ==
    {Nil, Some(0), Some(MaxTokensLimit - 1), Some(MaxTokensLimit),
     Some(MaxTokensLimit + 1)}

\* main.go 194-197, 211-219: an empty conversation counts 0 without a request
countConversationTokens(conv, answer) ==
    IF Len(conv) = 0 THEN Some(0) ELSE answer

\* main.go 222-263: nil when there is nothing to summarize or the request
\* fails, else one message
summarizeConversation(messagesToSummarize, answered) ==
    IF Len(messagesToSummarize) = 0 \/ ~answered THEN Nil
    ELSE Some(SummaryMessage(Len(messagesToSummarize)))

\* manageConversationLength with a bug: when counting fails, twice as many
\* recent messages are kept
manageConversationLengthKeepsTwice(conv, answer, answered) ==
    LET tokenCount == countConversationTokens(conv, answer)
        splitPoint == Len(conv) - RecentMessagesKeep
        summaryMessage == summarizeConversation(SliceTo(conv, splitPoint), answered)
    IN  IF IsNil(tokenCount)
        THEN IF Len(conv) > RecentMessagesKeep * 2
             THEN Managed(conv, tokenCount, "none",
                          SliceFrom(conv, Len(conv) - RecentMessagesKeep * 2))
             ELSE Managed(conv, tokenCount, "none", conv)
        ELSE IF Deref(tokenCount) < MaxTokensLimit
        THEN Managed(conv, tokenCount, "none", conv)
        ELSE IF Len(conv) <= RecentMessagesKeep
        THEN Managed(conv, tokenCount, "none", conv)
        ELSE IF IsNil(summaryMessage)
        THEN Managed(conv, tokenCount, "failed", SliceFrom(conv, splitPoint))
        ELSE Managed(conv, tokenCount, "ok",
                     <<Deref(summaryMessage)>> \o SliceFrom(conv, splitPoint))

\* main.go 266-315: answer is what CountTokens answers for a conversation
\* that is not empty, answered whether the summary request succeeds
manageConversationLength(conv, answer, answered) ==
    LET tokenCount == countConversationTokens(conv, answer)
        splitPoint == Len(conv) - RecentMessagesKeep
        summaryMessage == summarizeConversation(SliceTo(conv, splitPoint), answered)
    IN  IF IsNil(tokenCount)
        THEN IF Len(conv) > RecentMessagesKeep * 2
             THEN Managed(conv, tokenCount, "none",
                          SliceFrom(conv, Len(conv) - RecentMessagesKeep))
             ELSE Managed(conv, tokenCount, "none", conv)
        ELSE IF Deref(tokenCount) < MaxTokensLimit
        THEN Managed(conv, tokenCount, "none", conv)
        ELSE IF Len(conv) <= RecentMessagesKeep
        THEN Managed(conv, tokenCount, "none", conv)
        ELSE IF IsNil(summaryMessage)
        THEN Managed(conv, tokenCount, "failed", SliceFrom(conv, splitPoint))
        ELSE Managed(conv, tokenCount, "ok",
                     <<Deref(summaryMessage)>> \o SliceFrom(conv, splitPoint))

\* main.go 386-387, 401, 428-430: Run appends a message (of the user, of the
\* model, the tool results)
AppendMessage ==
    /\ nextId <= MaxMessages
    /\ conversation' = Append(conversation, Message(nextId))
    /\ nextId' = nextId + 1
    /\ UNCHANGED <<managed, editVars, pathVars, animVars>>

\* main.go 389-395: Run replaces the conversation by the managed one
Manage(answer, answered) ==
    /\ managed' = manageConversationLength(conversation, answer, answered)
    /\ conversation' = managed'.output
    /\ UNCHANGED <<nextId, editVars, pathVars, animVars>>

InitConv ==
    /\ ConvIdle
    /\ AnimIdle
    /\ workingDir = HomeDir
    /\ call = NoCall
    /\ disk = NoFile
    /\ pc = "idle"
    /\ ops = <<>>
    /\ lines = <<>>
    /\ i = 0
    /\ err = NoCallError
    /\ before = disk
    /\ loaded = <<>>
    /\ applied = <<>>
    /\ io = "none"

NextConv ==
    \/ AppendMessage
    \/ \E answer \in TokenCounts, answered \in BOOLEAN : Manage(answer, answered)

SpecConv == InitConv /\ [][NextConv]_vars

\* the last n elements of a sequence
LastOf(s, n) == SubSeq(s, Len(s) - n + 1, Len(s))

\* manageConversationLength took a branch that shortens the conversation
Shortened ==
    \/ /\ ~IsNil(managed.tokens)
       /\ Deref(managed.tokens) >= MaxTokensLimit
       /\ Len(managed.input) > RecentMessagesKeep
    \/ /\ IsNil(managed.tokens)
       /\ Len(managed.input) > RecentMessagesKeep + RecentMessagesKeep

\* C21: manageConversationLength returns the conversation as it is when the
\* token count is below the limit of 190000 or when there are at most 6
\* messages; when it shortens the conversation, the result ends with the last
\* 6 messages of the input in their order, after exactly one summary message
\* when the summary succeeded and after nothing otherwise
C21_RecentContext ==
    managed.called =>
        /\ (~IsNil(managed.tokens) /\ Deref(managed.tokens) < MaxTokensLimit) =>
              managed.output = managed.input
        /\ Len(managed.input) <= RecentMessagesKeep => managed.output = managed.input
        /\ Shortened =>
              /\ Len(managed.output) >= RecentMessagesKeep
              /\ LastOf(managed.output, RecentMessagesKeep)
                    = LastOf(managed.input, RecentMessagesKeep)
              /\ managed.summary = "ok" =>
                    /\ Len(managed.output) = RecentMessagesKeep + 1
                    /\ managed.output[1].kind = "summary"
              /\ managed.summary # "ok" => Len(managed.output) = RecentMessagesKeep
        /\ conversation = managed.output \/ Len(conversation) > Len(managed.output)

\* counting failed for a conversation of 13 messages: its last 6 are left
C21_Witness ==
    /\ managed.called
    /\ IsNil(managed.tokens)
    /\ Len(managed.input) = 13
    /\ Len(managed.output) = 6
    /\ managed.output[1] = Message(8)
    /\ managed.output[6] = Message(13)
    /\ conversation = managed.output

----------------------------------------------------------------------------
(* Content and addressing of the handlers, checked under SpecOp *)

\* the number of lines a successful delete or replace removes
Removed ==
    IF HasLineRange
    THEN Deref(TheOp.Location.LineRange).End - Deref(TheOp.Location.LineRange).Start + 1
    ELSE 1

\* C22: a content with k line breaks is split into exactly k+1 lines: a
\* successful insert or append makes the document k+1 lines longer, a replace
\* puts k+1 lines in the place of those it removes; an empty content adds one
\* empty line, a content that ends in a line break adds an empty last line
C22_ContentLines ==
    (Handled /\ Succeeded) =>
        LET k == Terminators(TheOp.Content)
        IN  /\ Len(NewLines) = k + 1
            /\ TheOp.Type \in {"insert", "append"} =>
                  Len(lines) = Len(loaded) + k + 1
            /\ TheOp.Type = "replace" =>
                  Len(lines) = Len(loaded) - Removed + k + 1
            /\ (TheOp.Type = "append" /\ TheOp.Content = <<>>) =>
                  lines = Append(loaded, <<>>)
            /\ (TheOp.Type = "append" /\ EndsTerminated(TheOp.Content)) =>
                  /\ lines[Len(lines)] = <<>>
                  /\ Len(lines) >= Len(loaded) + 2
            /\ (TheOp.Type = "insert" /\ TheOp.Location.Position = "start"
                  /\ TheOp.Content = <<>>) =>
                  lines = <<<<>>>> \o loaded

\* the content X with a line break after it was appended to A, B: the
\* document has 4 lines, the last one empty
C22_Witness ==
    /\ Handled
    /\ Succeeded
    /\ TheOp.Type = "append"
    /\ TheOp.Content = <<"X", NL>>
    /\ loaded = <<A, B>>
    /\ lines = <<A, B, X, <<>>>>

\* the operation carries a line_range and a line_number
BothAddresses == HasLineRange /\ HasLineNumber

\* C23: when a delete or replace carries both line_range and line_number, the
\* line_range alone decides: the operation succeeds exactly when the range is
\* within bounds, removes the lines of the range, reports a range that is out
\* of bounds as an invalid range, and is never refused for its line_number or
\* for carrying both
C23_RangeDecides ==
    (Handled /\ TheOp.Type \in {"delete", "replace"} /\ BothAddresses) =>
        /\ Succeeded <=> ValidRange
        /\ Rejected <=> ~ValidRange
        /\ Succeeded =>
              lines = SliceTo(loaded, TheStart - 1)
                        \o (IF TheOp.Type = "replace" THEN NewLines ELSE <<>>)
                        \o SliceFrom(loaded, TheEnd)
        /\ Rejected =>
              err.cause = Error("invalid_range", <<TheStart, TheEnd, Len(loaded)>>, "")

\* a delete of lines 2-3 that also carries the line number 6 removed B and C
\* from A, B, C, D
C23_Witness ==
    /\ Handled
    /\ Succeeded
    /\ TheOp.Type = "delete"
    /\ TheOp.Location.LineRange = Range(2, 3)
    /\ TheOp.Location.LineNumber = Some(6)
    /\ loaded = <<A, B, C, D>>
    /\ lines = <<A, D>>

----------------------------------------------------------------------------
(* ThinkingAnimation, ui/manager.go 43-110.  Start and the first half of   *)
(* Stop run under the mutex mu; Stop then waits, still holding mu, until   *)
(* the WaitGroup is back at 0.                                             *)

MaxCalls == 4

Removed1(s, k) == SliceTo(s, k - 1) \o SliceFrom(s, k)

Returned(c, how) ==
    [thread EXCEPT ![c] = [pc |-> "idle", calls |-> thread[c].calls + 1, last |-> how]]

\* ui/manager.go 59-94: a Start while running returns at once; otherwise one
\* goroutine is started, which has printed one dot
Start(c) ==
    /\ ~panicked
    /\ thread[c].pc = "idle"
    /\ thread[c].calls < MaxCalls
    /\ ta.mu = 0
    /\ IF ta.running
       THEN /\ thread' = Returned(c, "start_noop")
            /\ UNCHANGED <<ta, anims>>
       ELSE /\ ta' = [ta EXCEPT !.running = TRUE, !.wg = ta.wg + 1]
            /\ anims' = Append(anims, 1)
            /\ thread' = Returned(c, "started")
    /\ UNCHANGED <<panicked, editVars, pathVars, convVars>>

\* ui/manager.go 97-107: a Stop while not running returns at once; otherwise
\* running is cleared and stopChan closed, which panics when it is closed
\* already, and the caller goes on to wg.Wait()
StopClose(c) ==
    /\ ~panicked
    /\ thread[c].pc = "idle"
    /\ thread[c].calls < MaxCalls
    /\ ta.mu = 0
    /\ IF ~ta.running
       THEN /\ thread' = Returned(c, "stop_noop")
            /\ UNCHANGED <<ta, panicked>>
       ELSE IF ta.stopChan = "closed"
       THEN /\ panicked' = TRUE
            /\ ta' = [ta EXCEPT !.running = FALSE]
            /\ thread' = [thread EXCEPT ![c].pc = "panic"]
       ELSE /\ ta' = [ta EXCEPT !.running = FALSE, !.stopChan = "closed", !.mu = c]
            /\ thread' = [thread EXCEPT ![c].pc = "waiting"]
            /\ UNCHANGED panicked
    /\ UNCHANGED <<anims, editVars, pathVars, convVars>>

\* ui/manager.go 107-110: wg.Wait() returns, the line is cleared, mu unlocked
StopReturn(c) ==
    /\ ~panicked
    /\ thread[c].pc = "waiting"
    /\ ta.wg = 0
    /\ ta' = [ta EXCEPT !.mu = 0]
    /\ thread' = Returned(c, "stopped")
    /\ UNCHANGED <<anims, panicked, editVars, pathVars, convVars>>

\* ui/manager.go 83-90: the ticker fires in goroutine k
Tick(k) ==
    /\ ~panicked
    /\ k \in 1..Len(anims)
    /\ anims' = [anims EXCEPT ![k] = IF anims[k] < 3 THEN anims[k] + 1 ELSE 1]
    /\ UNCHANGED <<ta, thread, panicked, editVars, pathVars, convVars>>

\* ui/manager.go 71, 81-82: goroutine k receives from the closed stopChan and
\* returns; wg.Done()
Exit(k) ==
    /\ ~panicked
    /\ k \in 1..Len(anims)
    /\ ta.stopChan = "closed"
    /\ anims' = Removed1(anims, k)
    /\ ta' = [ta EXCEPT !.wg = ta.wg - 1]
    /\ UNCHANGED <<thread, panicked, editVars, pathVars, convVars>>

InitAnim ==
    /\ AnimIdle
    /\ ConvIdle
    /\ workingDir = HomeDir
    /\ call = NoCall
    /\ disk = NoFile
    /\ pc = "idle"
    /\ ops = <<>>
    /\ lines = <<>>
    /\ i = 0
    /\ err = NoCallError
    /\ before = disk
    /\ loaded = <<>>
    /\ applied = <<>>
    /\ io = "none"

NextAnim ==
    \/ \E c \in Callers : Start(c)
    \/ \E c \in Callers : StopClose(c)
    \/ \E c \in Callers : StopReturn(c)
    \/ \E k \in 1..Len(anims) : Tick(k)
    \/ \E k \in 1..Len(anims) : Exit(k)

SpecAnim == InitAnim /\ [][NextAnim]_vars

\* C24 as stated: for any sequence of Start and Stop calls, Start, Stop,
\* Start, Stop included, at most one animation goroutine is alive, a Start
\* while running and a Stop while not running change nothing (the WaitGroup
\* counts the one goroutine), stopChan is never closed twice, and when no
\* Stop is under way and the animation is not running, its goroutine has
\* exited
C24_StartStopSafe ==
    /\ Len(anims) <= 1
    /\ ta.wg = Len(anims)
    /\ ~panicked
    /\ (ta.mu = 0 /\ ~ta.running) => anims = <<>>

====
